---- MODULE Spec2Model ----
(***************************************************************************)
(* Model of DemkAaZa_PublicBot.py: the WalletDatabase (tenant map, dedup   *)
(* cache, their JSON files), the scheduled pass auto_monitor and the       *)
(* command handlers (add, remove, my/stats, check).                        *)
(*                                                                         *)
(* Python strings are sequences of one-character strings, so that str(),   *)
(* the f-string cache key, name[:20] and lower() are computed.  A Python   *)
(* dict is its entry array: insertion ordered, a deleted entry leaves a    *)
(* tombstone, and an iterator over it is CPython's (di_used, di_pos, len). *)
(* The two coroutines interleave only where the code awaits.               *)
(***************************************************************************)
EXTENDS Integers, Sequences, FiniteSets, TLC

\* ------------------------------------------------------------------ bounds

\* Operations (commands and scheduler passes) begun in one behaviour.
MaxOps == 3

\* ------------------------------------------------------- program constants

\* len(user["wallets"]) >= 10
MaxWallets == 10

\* name[:20]
NameLimit == 20

\* new_alerts[:3]
AlertCap == 3

\* "last_tx": None
None == -1

\* ----------------------------------------------------------------- strings

Digits == <<"0", "1", "2", "3", "4", "5", "6", "7", "8", "9">>

\* str(user_id) / the f-string rendering of an int
RECURSIVE Str(_)
Str(n) ==
  IF n < 10 THEN <<Digits[n + 1]>>
  ELSE Str(n \div 10) \o <<Digits[(n % 10) + 1]>>

DigitVal(c) == (CHOOSE i \in 1..10 : Digits[i] = c) - 1

\* int(user_id_str)
RECURSIVE ParseInt(_)
ParseInt(s) ==
  IF Len(s) = 1 THEN DigitVal(s[1])
  ELSE 10 * ParseInt(SubSeq(s, 1, Len(s) - 1)) + DigitVal(s[Len(s)])

UpperCase == <<"A", "B", "F", "M", "X">>
LowerCase == <<"a", "b", "f", "m", "x">>

LowerChar(c) ==
  IF \E i \in 1..Len(UpperCase) : UpperCase[i] = c
  THEN LowerCase[CHOOSE i \in 1..Len(UpperCase) : UpperCase[i] = c]
  ELSE c

\* str.lower()
Lower(s) == [i \in 1..Len(s) |-> LowerChar(s[i])]

\* name[:20]
Truncate(s) == SubSeq(s, 1, IF Len(s) < NameLimit THEN Len(s) ELSE NameLimit)

\* f"{user_id}_{address}_{tx_id}"
cache_key_flat(user_id_str, address, tx_id) == address \o <<"_">> \o tx_id
cache_key(user_id_str, address, tx_id) ==
  user_id_str \o <<"_">> \o address \o <<"_">> \o tx_id

\* -------------------------------------------------------------------- dict

\* A deleted entry of the entry array.
Tomb == <<>>

EmptyDict == <<>>

LiveIdx(d) == {i \in 1..Len(d) : d[i] # Tomb}

\* len(d), CPython's ma_used
Used(d) == Cardinality(LiveIdx(d))

Keys(d) == {d[i][1] : i \in LiveIdx(d)}

\* k in d
Has(d, k) == \E i \in LiveIdx(d) : d[i][1] = k

IdxOf(d, k) == CHOOSE i \in LiveIdx(d) : d[i][1] = k

\* d[k]
Get(d, k) == d[IdxOf(d, k)][2]

\* d[k] = v for a key already present: the entry keeps its place
Put(d, k, v) == [d EXCEPT ![IdxOf(d, k)] = <<k, v>>]

\* the dict without its tombstones, as a resize rebuilds the entry array
Compact(d) == SelectSeq(d, LAMBDA e : e # Tomb)

\* d[k] = v for a new key: appended; the insert may resize the table, which
\* compacts the entry array (when is decided by the table's fill, which the
\* model leaves open)
Ins(d, k, v, resize) == Append(IF resize THEN Compact(d) ELSE d, <<k, v>>)

\* del d[k]
Del(d, k) == [d EXCEPT ![IdxOf(d, k)] = Tomb]

\* The resize choices an insert into d has.
Resizes(d) == IF Len(Compact(d)) < Len(d) THEN {FALSE, TRUE} ELSE {FALSE}

\* The dict as a mapping (what == on two dicts compares).
AsMap(d) == {d[i] : i \in LiveIdx(d)}

\* iter(d.items()): di_used, di_pos, len
NewIter(d) == [used |-> Used(d), pos |-> 0, len |-> Used(d)]

NoIter == [used |-> 0, pos |-> 0, len |-> 0]

\* next() on the iterator: "error" is RuntimeError (size or keys changed
\* during iteration), "stop" is StopIteration, else the entry at `at`.
IterNext(d, it) ==
  LET ahead == {i \in LiveIdx(d) : i > it.pos}
      i == IF ahead = {} THEN 0 ELSE CHOOSE j \in ahead : \A l \in ahead : j <= l
  IN  IF it.used # Used(d) THEN [res |-> "error", at |-> 0, it |-> it]
      ELSE IF ahead = {} THEN [res |-> "stop", at |-> 0, it |-> it]
      ELSE IF it.len = 0 THEN [res |-> "error", at |-> 0, it |-> it]
      ELSE [res |-> "item", at |-> i,
            it |-> [used |-> it.used, pos |-> i, len |-> it.len - 1]]

\* ---------------------------------------------------------- WalletDatabase

\* self.users[user_id] = {"wallets": {}, "created": ..., "alert_count": 0}
NewUser(now) == [wallets |-> EmptyDict, created |-> now, alert_count |-> 0]

\* {"name": name[:20], "added": ..., "last_tx": None, "tx_count": 0}
NewWallet(name, now) ==
  [name |-> Truncate(name), added |-> now, last_tx |-> None, tx_count |-> 0]

\* json.dump(self.users): the mapping in insertion order, no tombstones
DumpUsers(users) ==
  LET c == Compact(users)
  IN  [i \in 1..Len(c) |-> <<c[i][1], [c[i][2] EXCEPT !.wallets = Compact(@)]>>]

\* save_data: both files are rewritten from memory
save_data(users, tx_cache) == [users |-> DumpUsers(users), tx_cache |-> tx_cache]

\* get_user: the tenant's entry, created (and saved) when absent
get_user(users, user_id, now, resize) ==
  IF Has(users, Str(user_id))
  THEN [users |-> users, saved |-> FALSE]
  ELSE [users |-> Ins(users, Str(user_id), NewUser(now), resize), saved |-> TRUE]

\* user["wallets"] of a tenant, empty for an unknown tenant
WalletsOf(users, user_id) ==
  IF Has(users, Str(user_id)) THEN Get(users, Str(user_id)).wallets ELSE EmptyDict

add_wallet_overQuota(users, user_id, address, name, now, ru, rw) ==
  LET g == get_user(users, user_id, now, ru)
      user == Get(g.users, Str(user_id))
  IN  IF Used(user.wallets) > MaxWallets
      THEN [ok |-> FALSE, msg |-> "QuotaExceeded", users |-> g.users, saved |-> g.saved]
      ELSE IF Has(user.wallets, address)
      THEN [ok |-> FALSE, msg |-> "AlreadyTracked", users |-> g.users, saved |-> g.saved]
      ELSE [ok |-> TRUE, msg |-> "Added", saved |-> TRUE,
            users |-> Put(g.users, Str(user_id),
                          [user EXCEPT !.wallets =
                             Ins(@, address, NewWallet(name, now), rw)])]

\* an add_wallet that writes over the entry of a tracked address
add_wallet_overwrite(users, user_id, address, name, now, ru, rw) ==
  LET g == get_user(users, user_id, now, ru)
      user == Get(g.users, Str(user_id))
  IN  IF Used(user.wallets) >= MaxWallets
      THEN [ok |-> FALSE, msg |-> "QuotaExceeded", users |-> g.users, saved |-> g.saved]
      ELSE IF Has(user.wallets, address)
      THEN [ok |-> FALSE, msg |-> "AlreadyTracked", saved |-> g.saved,
            users |-> Put(g.users, Str(user_id),
                          [user EXCEPT !.wallets =
                             Put(@, address, NewWallet(name, now))])]
      ELSE [ok |-> TRUE, msg |-> "Added", saved |-> TRUE,
            users |-> Put(g.users, Str(user_id),
                          [user EXCEPT !.wallets =
                             Ins(@, address, NewWallet(name, now), rw)])]

\* add_wallet(user_id, address, name) -> (success, message)
add_wallet(users, user_id, address, name, now, ru, rw) ==
  LET g == get_user(users, user_id, now, ru)
      user == Get(g.users, Str(user_id))
  IN  IF Used(user.wallets) >= MaxWallets
      THEN [ok |-> FALSE, msg |-> "QuotaExceeded", users |-> g.users, saved |-> g.saved]
      ELSE IF Has(user.wallets, address)
      THEN [ok |-> FALSE, msg |-> "AlreadyTracked", users |-> g.users, saved |-> g.saved]
      ELSE [ok |-> TRUE, msg |-> "Added", saved |-> TRUE,
            users |-> Put(g.users, Str(user_id),
                          [user EXCEPT !.wallets =
                             Ins(@, address, NewWallet(name, now), rw)])]

\* the first tracked address whose name equals the identifier, ignoring case
\* (the loop of remove_wallet), <<>> when there is none
ByName(wallets, identifier) ==
  LET m == {i \in LiveIdx(wallets) : Lower(wallets[i][2].name) = Lower(identifier)}
  IN  IF m = {} THEN <<>>
      ELSE <<wallets[CHOOSE i \in m : \A j \in m : i <= j][1]>>

remove_wallet_keeps(users, user_id, identifier, now, ru) ==
  LET g == get_user(users, user_id, now, ru)
      user == Get(g.users, Str(user_id))
      named == ByName(user.wallets, identifier)
  IN  IF Has(user.wallets, identifier)
      THEN [ok |-> TRUE, msg |-> "Removed", saved |-> TRUE, removed |-> <<identifier>>,
            users |-> g.users]
      ELSE IF named # <<>>
      THEN [ok |-> TRUE, msg |-> "Removed", saved |-> TRUE, removed |-> named,
            users |-> Put(g.users, Str(user_id),
                          [user EXCEPT !.wallets = Del(@, named[1])])]
      ELSE [ok |-> FALSE, msg |-> "NotFound", saved |-> g.saved, removed |-> <<>>,
            users |-> g.users]

\* a remove_wallet that looks for the name before the address
remove_wallet_nameFirst(users, user_id, identifier, now, ru) ==
  LET g == get_user(users, user_id, now, ru)
      user == Get(g.users, Str(user_id))
      named == ByName(user.wallets, identifier)
  IN  IF named # <<>>
      THEN [ok |-> TRUE, msg |-> "Removed", saved |-> TRUE, removed |-> named,
            users |-> Put(g.users, Str(user_id),
                          [user EXCEPT !.wallets = Del(@, named[1])])]
      ELSE IF Has(user.wallets, identifier)
      THEN [ok |-> TRUE, msg |-> "Removed", saved |-> TRUE, removed |-> <<identifier>>,
            users |-> Put(g.users, Str(user_id),
                          [user EXCEPT !.wallets = Del(@, identifier)])]
      ELSE [ok |-> FALSE, msg |-> "NotFound", saved |-> g.saved, removed |-> <<>>,
            users |-> g.users]

\* remove_wallet(user_id, identifier) -> (success, message); `removed` is the
\* address whose entry was deleted
remove_wallet(users, user_id, identifier, now, ru) ==
  LET g == get_user(users, user_id, now, ru)
      user == Get(g.users, Str(user_id))
      named == ByName(user.wallets, identifier)
  IN  IF Has(user.wallets, identifier)
      THEN [ok |-> TRUE, msg |-> "Removed", saved |-> TRUE, removed |-> <<identifier>>,
            users |-> Put(g.users, Str(user_id),
                          [user EXCEPT !.wallets = Del(@, identifier)])]
      ELSE IF named # <<>>
      THEN [ok |-> TRUE, msg |-> "Removed", saved |-> TRUE, removed |-> named,
            users |-> Put(g.users, Str(user_id),
                          [user EXCEPT !.wallets = Del(@, named[1])])]
      ELSE [ok |-> FALSE, msg |-> "NotFound", saved |-> g.saved, removed |-> <<>>,
            users |-> g.users]

\* ---------------------------------------------------------- ActivitySource

\* a record of the source; signature <<>> is a record without one
Tx(sig) == [signature |-> sig]

\* a fetch_transactions that answers a failed call with a record
fetch_transactions_stale(response) ==
  IF response.status = 200 THEN response.body ELSE <<Tx(<<"y">>)>>

\* fetch_transactions: the body of a 200 response, [] for anything else
fetch_transactions(response) ==
  IF response.status = 200 THEN response.body ELSE <<>>

\* a record that inserts nothing, and one that keeps only the last key
Record_skip(cache, key, now) == cache
Record_forget(cache, key, now) == [k \in {key} |-> now]

\* db.tx_cache[cache_key] = datetime.now().isoformat()
Record(cache, key, now) ==
  [k \in DOMAIN cache \cup {key} |-> IF k = key THEN now ELSE cache[k]]

\* a filter without the membership test
RECURSIVE Filter_noTest(_, _, _, _, _)
Filter_noTest(txs, user_id_str, address, now, st) ==
  IF txs = <<>> THEN st
  ELSE LET tx_id == Head(txs).signature
           key == cache_key(user_id_str, address, tx_id)
       IN  IF tx_id = <<>> THEN Filter_noTest(Tail(txs), user_id_str, address, now, st)
           ELSE Filter_noTest(Tail(txs), user_id_str, address, now,
                  [tx_cache |-> Record(st.tx_cache, key, now),
                   wallet_data |-> [st.wallet_data EXCEPT !.tx_count = @ + 1,
                                                          !.last_tx = now],
                   alert_count |-> st.alert_count + 1,
                   new_alerts |-> Append(st.new_alerts,
                                         <<Head(txs), st.wallet_data.name, address>>),
                   recorded |-> st.recorded \cup {<<user_id_str, address, tx_id, now>>}])

\* The novelty filter of one fetched list (the loop over `transactions` in
\* auto_monitor and check_command).  st carries the dedup cache, the held
\* wallet_data, the tenant's alert_count, new_alerts and the triples recorded.
RECURSIVE Filter(_, _, _, _, _)
Filter(txs, user_id_str, address, now, st) ==
  IF txs = <<>> THEN st
  ELSE LET tx_id == Head(txs).signature
           key == cache_key(user_id_str, address, tx_id)
       IN  IF tx_id = <<>> THEN Filter(Tail(txs), user_id_str, address, now, st)
           ELSE IF key \in DOMAIN st.tx_cache
           THEN Filter(Tail(txs), user_id_str, address, now, st)
           ELSE Filter(Tail(txs), user_id_str, address, now,
                  [tx_cache |-> Record(st.tx_cache, key, now),
                   wallet_data |-> [st.wallet_data EXCEPT !.tx_count = @ + 1,
                                                          !.last_tx = now],
                   alert_count |-> st.alert_count + 1,
                   new_alerts |-> Append(st.new_alerts,
                                         <<Head(txs), st.wallet_data.name, address>>),
                   recorded |-> st.recorded \cup {<<user_id_str, address, tx_id, now>>}])

\* ------------------------------------------------------------------ inputs

\* update.effective_user.id of the users who talk to the bot
UserIds == {1, 2}

ADDR_A == <<"A">>
ADDR_AX == <<"A", "_", "x">>

Addresses == {ADDR_A, ADDR_AX}

NAME_a == <<"a">>
NAME_LONG == [i \in 1..(NameLimit + 1) |-> "m"]

\* context.args[0] and " ".join(context.args[1:]) of /add: one address with
\* a name longer than name[:20] keeps, one whose name is the other address
\* in lower case
AddArgs == {<<ADDR_A, NAME_LONG>>, <<ADDR_AX, NAME_a>>}

\* " ".join(context.args) of /remove: an address, or a kept name in upper case
Identifiers == {ADDR_A, [i \in 1..NameLimit |-> "M"]}

\* Addresses with no activity, tracked in a database file found at start.
FillerAddr(i) == <<"F", Digits[i + 1]>>
FillerName(i) == <<"f", Digits[i + 1]>>

SIG_y == <<"y">>
SIG_xy == <<"x", "_", "y">>

\* What the HTTP call can come back with: a failure (exception, timeout,
\* non-200), or 200 with a list of records (RespOne: a record without a
\* signature, then one record listed twice).
RespFail == [status |-> 500, body |-> <<>>]
RespOne == [status |-> 200, body |-> <<Tx(<<>>), Tx(SIG_y), Tx(SIG_y)>>]
RespFour == [status |-> 200, body |-> <<Tx(SIG_y), Tx(SIG_xy), Tx(<<"p">>), Tx(<<"q">>)>>]
RespNone == [status |-> 200, body |-> <<>>]

Feed(address) ==
  IF address \in Addresses THEN {RespFail, RespOne, RespFour} ELSE {RespNone}

\* Outcomes of a send to the chat: delivered, an error of the blocked /
\* forbidden class, any other error.
SendResults == {"ok", "blocked", "transient"}

\* --------------------------------------------------------------- the state

VARIABLES
  users,      \* db.users
  tx_cache,   \* db.tx_cache: cache key -> first seen
  disk,       \* wallets_db.json and tx_cache.json as last written
  mon,        \* the auto_monitor coroutine: position and locals
  hnd,        \* the command handler coroutine: position and locals
  nOps,       \* operations (commands, passes) begun
  reply,      \* what the last command answered
  recorded,   \* the (tenant, address, id, time) the filter has recorded
  prev,       \* per tenant, what its last completed cycle fetched
  hist        \* the records found novel and the notifications attempted so far

vars == <<users, tx_cache, disk, mon, hnd, nOps, reply, recorded, prev, hist>>

\* datetime.now(): the count of operations begun
Now == nOps

NoWallet == [name |-> <<>>, added |-> None, last_tx |-> None, tx_count |-> 0]
NoUser == [wallets |-> EmptyDict, created |-> None, alert_count |-> 0]
NoPrev == [done |-> FALSE, seen |-> {}]
NoHist == [found |-> {}, sent |-> {}]

\* the locals of one cycle, before it starts
CycleIdle ==
  [id |-> <<>>, wit |-> NoIter, addr |-> <<>>, new_alerts |-> <<>>, idx |-> 0,
   log |-> <<>>, seen |-> {}, base |-> NoPrev, out |-> "none"]

MonIdle ==
  [pc |-> "idle", uit |-> NoIter, uid |-> <<>>, user_id |-> 0,
   whold |-> TRUE, wd |-> NoWallet, cyc |-> CycleIdle,
   startSet |-> {}, cycled |-> {}, removedSet |-> {}, crashed |-> FALSE]

HndIdle ==
  [pc |-> "idle", user_id |-> 0, uhold |-> TRUE, orphan |-> NoUser,
   cyc |-> CycleIdle]

NoReply == [op |-> "none", user_id |-> 0, arg |-> <<>>, ok |-> FALSE,
            msg |-> "none", undoes |-> FALSE]

\* Where a coroutine is suspended at an await (or not running): only there
\* does the event loop run the other one.
MonAwait == {"idle", "fetch", "send", "sleep"}
HndAwait == {"idle", "c_reply", "c_fetch", "c_send", "c_sleep", "c_summary", "c_nonew"}

\* The database files the process finds when it starts: none (both loads
\* fall to their except), or those of a tenant with nine tracked addresses.
FillerWallets ==
  [i \in 1..(MaxWallets - 1) |-> <<FillerAddr(i), NewWallet(FillerName(i), 0)>>]

NoFiles == [users |-> EmptyDict, tx_cache |-> << >>]

NineFiles ==
  [users |-> <<<<Str(1), [wallets |-> FillerWallets, created |-> 0,
                          alert_count |-> 0]>>>>,
   tx_cache |-> << >>]

\* the files of a tenant who tracks one address
OneFiles ==
  [users |-> <<<<Str(1), [wallets |-> <<<<ADDR_A, NewWallet(NAME_LONG, 0)>>>>,
                          created |-> 0, alert_count |-> 0]>>>>,
   tx_cache |-> << >>]

\* WalletDatabase.__init__ / load_data
load_data(files) ==
  /\ disk = files
  /\ users = disk.users
  /\ tx_cache = disk.tx_cache
  /\ mon = MonIdle
  /\ hnd = HndIdle
  /\ nOps = 0
  /\ reply = NoReply
  /\ recorded = {}
  /\ prev = [u \in {Str(i) : i \in UserIds} |-> NoPrev]
  /\ hist = NoHist

Init == load_data(NoFiles)

InitNine == load_data(NineFiles)

InitOne == load_data(OneFiles)

\* ------------------------------------------------------------ auto_monitor

Min(a, b) == IF a < b THEN a ELSE b

Event(kind, res, n) == [kind |-> kind, res |-> res, n |-> n]

\* the records a filter run appended to new_alerts, as (tenant, address, id,
\* cycle, time)
Found(id, uid, before, after, now) ==
  {<<uid, after[i][3], after[i][1].signature, id, now>> :
     i \in (Len(before) + 1)..Len(after)}

\* one attempt to send the notification of an element of new_alerts
Attempt(id, uid, alert, res) == <<uid, alert[3], alert[1].signature, id, res>>

\* the state of the filter before one fetched list is processed
FilterStart(wallet_data, alert_count, new_alerts) ==
  [tx_cache |-> tx_cache, wallet_data |-> wallet_data, alert_count |-> alert_count,
   new_alerts |-> new_alerts, recorded |-> recorded]

\* job_queue.run_repeating(auto_monitor, ...): a pass begins; iter(db.users.items())
MonitorStart ==
  /\ mon.pc = "idle"
  /\ hnd.pc \in HndAwait
  /\ nOps < MaxOps
  /\ nOps' = nOps + 1
  /\ mon' = [MonIdle EXCEPT !.pc = "users_next", !.uit = NewIter(users),
                            !.startSet = Keys(users)]
  /\ UNCHANGED <<users, tx_cache, disk, hnd, reply, recorded, prev, hist>>

\* for user_id_str, user_data in db.users.items(): the next tenant, the end
\* of the pass, or the RuntimeError of a dict changed during iteration, which
\* nothing in auto_monitor catches
MonitorNextUser ==
  /\ mon.pc = "users_next"
  /\ LET r == IterNext(users, mon.uit)
     IN  IF r.res = "item"
         THEN mon' = [mon EXCEPT
                !.pc = "wallets_next", !.uit = r.it,
                !.uid = users[r.at][1], !.user_id = ParseInt(users[r.at][1]),
                !.cycled = @ \cup {users[r.at][1]},
                !.cyc = [CycleIdle EXCEPT !.id = <<"scheduled", nOps>>,
                                          !.wit = NewIter(users[r.at][2].wallets),
                                          !.base = prev[users[r.at][1]]]]
         ELSE mon' = [mon EXCEPT !.pc = "pass_end", !.crashed = (r.res = "error")]
  /\ UNCHANGED <<users, tx_cache, disk, hnd, nOps, reply, recorded, prev, hist>>

\* for address, wallet_data in user_data["wallets"].items(): the next address,
\* the end of the loop, or the RuntimeError that the except of line 444 catches
MonitorNextWallet ==
  /\ mon.pc = "wallets_next"
  /\ LET wallets == Get(users, mon.uid).wallets
         r == IterNext(wallets, mon.cyc.wit)
     IN  CASE r.res = "item" ->
                mon' = [mon EXCEPT !.pc = "fetch", !.whold = TRUE, !.wd = NoWallet,
                                   !.cyc.wit = r.it, !.cyc.addr = wallets[r.at][1]]
           [] r.res = "stop" -> mon' = [mon EXCEPT !.pc = "deliver"]
           [] OTHER -> mon' = [mon EXCEPT !.pc = "cycle_end", !.cyc.out = "error"]
  /\ UNCHANGED <<users, tx_cache, disk, hnd, nOps, reply, recorded, prev, hist>>

\* transactions = await fetch_transactions(address, limit=5), then the loop
\* over them (lines 405-419).  wallet_data is the object the loop variable
\* holds: the tracked entry, or an entry a /remove has taken out meanwhile.
MonitorFetch ==
  /\ mon.pc = "fetch"
  /\ hnd.pc \in HndAwait
  /\ \E resp \in Feed(mon.cyc.addr) :
       LET user_data == Get(users, mon.uid)
           wallet_data == IF mon.whold THEN Get(user_data.wallets, mon.cyc.addr)
                          ELSE mon.wd
           st == Filter(fetch_transactions(resp), mon.uid, mon.cyc.addr, Now,
                        FilterStart(wallet_data, user_data.alert_count,
                                    mon.cyc.new_alerts))
       IN  /\ users' = Put(users, mon.uid,
                           [user_data EXCEPT
                              !.alert_count = st.alert_count,
                              !.wallets = IF mon.whold
                                          THEN Put(@, mon.cyc.addr, st.wallet_data)
                                          ELSE @])
           /\ tx_cache' = st.tx_cache
           /\ recorded' = st.recorded
           /\ mon' = [mon EXCEPT !.pc = "wallets_next", !.whold = TRUE,
                                 !.wd = NoWallet,
                                 !.cyc.new_alerts = st.new_alerts,
                                 !.cyc.seen = @ \cup {<<mon.cyc.addr, resp>>}]
           /\ hist' = [hist EXCEPT !.found = @ \cup
                         Found(mon.cyc.id, mon.uid, mon.cyc.new_alerts,
                               st.new_alerts, Now)]
  /\ UNCHANGED <<disk, hnd, nOps, reply, prev>>

\* if new_alerts: db.save_data(), then the first of new_alerts[:3]
MonitorDeliver ==
  /\ mon.pc = "deliver"
  /\ IF mon.cyc.new_alerts = <<>>
     THEN /\ mon' = [mon EXCEPT !.pc = "cycle_end", !.cyc.out = "ok"]
          /\ disk' = disk
     ELSE /\ mon' = [mon EXCEPT !.pc = "send", !.cyc.idx = 1]
          /\ disk' = save_data(users, tx_cache)
  /\ UNCHANGED <<users, tx_cache, hnd, nOps, reply, recorded, prev, hist>>

\* the loop over new_alerts[:3] moves to its next element or ends
MonitorAdvance(m) ==
  IF m.cyc.idx < Min(AlertCap, Len(m.cyc.new_alerts))
  THEN [m EXCEPT !.pc = "send", !.cyc.idx = @ + 1]
  ELSE [m EXCEPT !.pc = "cycle_end", !.cyc.out = "ok"]

\* await context.bot.send_message(...): delivered; or an error of the
\* blocked/forbidden class: del db.users[user_id_str], save_data, break; or
\* another error, which the except swallows and the loop goes on
MonitorSend ==
  /\ mon.pc = "send"
  /\ hnd.pc \in HndAwait
  /\ \E res \in SendResults :
       LET logged == [mon EXCEPT !.cyc.log = Append(@, Event("alert", res, 0))]
       IN  /\ hist' = [hist EXCEPT !.sent = @ \cup
                         {Attempt(mon.cyc.id, mon.uid,
                                  mon.cyc.new_alerts[mon.cyc.idx], res)}]
           /\ CASE res = "ok" ->
                    /\ mon' = [logged EXCEPT !.pc = "sleep"]
                    /\ UNCHANGED <<users, disk, hnd>>
               [] res = "blocked" ->
                    /\ users' = Del(users, mon.uid)
                    /\ disk' = save_data(users', tx_cache)
                    /\ mon' = [logged EXCEPT !.pc = "cycle_end", !.cyc.out = "removed",
                                             !.removedSet = @ \cup {mon.uid}]
                    /\ hnd' = IF hnd.pc # "idle" /\ hnd.uhold
                                 /\ Str(hnd.user_id) = mon.uid
                              THEN [hnd EXCEPT !.uhold = FALSE,
                                               !.orphan = Get(users, mon.uid)]
                              ELSE hnd
               [] OTHER ->
                    /\ mon' = MonitorAdvance(logged)
                    /\ UNCHANGED <<users, disk, hnd>>
  /\ UNCHANGED <<tx_cache, nOps, reply, recorded, prev>>

\* await asyncio.sleep(1)
MonitorSleep ==
  /\ mon.pc = "sleep"
  /\ hnd.pc \in HndAwait
  /\ mon' = MonitorAdvance([mon EXCEPT !.cyc.log = Append(@, Event("sleep", "ok", 0))])
  /\ UNCHANGED <<users, tx_cache, disk, hnd, nOps, reply, recorded, prev, hist>>

\* what a tenant's last completed cycle fetched
Completed(cyc) == cyc.out \in {"ok", "removed"}
NotePrev(uid, cyc) ==
  IF Completed(cyc) /\ uid \in DOMAIN prev
  THEN [prev EXCEPT ![uid] = [done |-> TRUE, seen |-> cyc.seen]]
  ELSE prev

\* the end of one tenant's try block: on to the next tenant
MonitorCycleEnd ==
  /\ mon.pc = "cycle_end"
  /\ prev' = NotePrev(mon.uid, mon.cyc)
  /\ mon' = [mon EXCEPT !.pc = "users_next", !.uid = <<>>, !.user_id = 0,
                        !.cyc = CycleIdle]
  /\ UNCHANGED <<users, tx_cache, disk, hnd, nOps, reply, recorded, hist>>

\* auto_monitor returns, or is left by the uncaught RuntimeError
MonitorPassEnd ==
  /\ mon.pc = "pass_end"
  /\ mon' = MonIdle
  /\ UNCHANGED <<users, tx_cache, disk, hnd, nOps, reply, recorded, prev, hist>>

\* ---------------------------------------------------------------- commands

\* A command begins: the handler is free and the event loop is not inside a
\* synchronous stretch of auto_monitor.
CmdReady ==
  /\ hnd.pc = "idle"
  /\ mon.pc \in MonAwait
  /\ nOps < MaxOps

Saved(r) == IF r.saved THEN save_data(r.users, tx_cache) ELSE disk

\* add_command: db.add_wallet(user_id, address, name), then the reply
AddCmd(user_id, address, name) ==
  /\ CmdReady
  /\ \E ru \in Resizes(users), rw \in Resizes(WalletsOf(users, user_id)) :
       LET r == add_wallet(users, user_id, address, name, Now + 1, ru, rw)
       IN  /\ users' = r.users
           /\ disk' = Saved(r)
           /\ reply' = [op |-> "add", user_id |-> user_id, arg |-> address,
                        ok |-> r.ok, msg |-> r.msg, undoes |-> FALSE]
  /\ nOps' = nOps + 1
  /\ UNCHANGED <<tx_cache, mon, hnd, recorded, prev, hist>>

\* remove_command: db.remove_wallet(user_id, identifier), then the reply.
\* An entry that auto_monitor holds across its fetch stays with it as an
\* object that is no longer in the dict.
RemoveCmd(user_id, identifier) ==
  /\ CmdReady
  /\ \E ru \in Resizes(users) :
       LET r == remove_wallet(users, user_id, identifier, Now + 1, ru)
       IN  /\ users' = r.users
           /\ disk' = Saved(r)
           /\ reply' = [op |-> "remove", user_id |-> user_id, arg |-> identifier,
                        ok |-> r.ok, msg |-> r.msg,
                        undoes |-> /\ r.ok
                                   /\ reply.op = "add" /\ reply.ok
                                   /\ reply.user_id = user_id
                                   /\ reply.arg = identifier]
           /\ mon' = IF /\ r.ok /\ mon.pc = "fetch" /\ mon.whold
                        /\ mon.uid = Str(user_id) /\ mon.cyc.addr = r.removed[1]
                     THEN [mon EXCEPT !.whold = FALSE,
                                      !.wd = Get(WalletsOf(users, user_id),
                                                 r.removed[1])]
                     ELSE mon
  /\ nOps' = nOps + 1
  /\ UNCHANGED <<tx_cache, hnd, recorded, prev, hist>>

\* my_command, stats_command: db.get_user(user_id), then the reply
MyCmd(user_id) ==
  /\ CmdReady
  /\ \E ru \in Resizes(users) :
       LET g == get_user(users, user_id, Now + 1, ru)
       IN  /\ users' = g.users
           /\ disk' = Saved(g)
           /\ reply' = [op |-> "my", user_id |-> user_id, arg |-> <<>>,
                        ok |-> TRUE, msg |-> "Listed", undoes |-> FALSE]
  /\ nOps' = nOps + 1
  /\ UNCHANGED <<tx_cache, mon, hnd, recorded, prev, hist>>

\* ----------------------------------------------------------- check_command

\* check_command up to its first await: get_user; with no wallets the reply
\* of line 276 and return, else the reply of line 279
CheckStart(user_id) ==
  /\ CmdReady
  /\ \E ru \in Resizes(users) :
       LET g == get_user(users, user_id, Now + 1, ru)
           none == Used(Get(g.users, Str(user_id)).wallets) = 0
       IN  /\ users' = g.users
           /\ disk' = Saved(g)
           /\ reply' = [op |-> "check", user_id |-> user_id, arg |-> <<>>,
                        ok |-> ~none, msg |-> IF none THEN "NoWallets" ELSE "Checking",
                        undoes |-> FALSE]
           /\ hnd' = IF none THEN hnd
                     ELSE [HndIdle EXCEPT !.pc = "c_reply", !.user_id = user_id,
                                          !.cyc.id = <<"manual", nOps + 1>>,
                                          !.cyc.base = prev[Str(user_id)]]
  /\ nOps' = nOps + 1
  /\ UNCHANGED <<tx_cache, mon, recorded, prev, hist>>

\* the tenant object `user` that check_command holds: the entry of db.users,
\* or the object auto_monitor has deleted from it meanwhile
HeldUser == IF hnd.uhold THEN Get(users, Str(hnd.user_id)) ELSE hnd.orphan

\* await update.message.reply_text("Checking ..."): delivered, and the loop
\* over user["wallets"].items() begins; or it raises and the handler is left
CheckReplied ==
  /\ hnd.pc = "c_reply"
  /\ mon.pc \in MonAwait
  /\ \E res \in SendResults :
       LET logged == [hnd EXCEPT !.cyc.log = Append(@, Event("info", res, 0))]
       IN  hnd' = IF res = "ok"
                  THEN [logged EXCEPT !.pc = "c_wallets_next",
                                      !.cyc.wit = NewIter(HeldUser.wallets)]
                  ELSE [logged EXCEPT !.pc = "c_end", !.cyc.out = "error"]
  /\ UNCHANGED <<users, tx_cache, disk, mon, nOps, reply, recorded, prev, hist>>

\* for address, wallet_data in user["wallets"].items()
CheckNextWallet ==
  /\ hnd.pc = "c_wallets_next"
  /\ LET wallets == HeldUser.wallets
         r == IterNext(wallets, hnd.cyc.wit)
     IN  CASE r.res = "item" ->
                hnd' = [hnd EXCEPT !.pc = "c_fetch", !.cyc.wit = r.it,
                                   !.cyc.addr = wallets[r.at][1]]
           [] r.res = "stop" -> hnd' = [hnd EXCEPT !.pc = "c_deliver"]
           [] OTHER -> hnd' = [hnd EXCEPT !.pc = "c_end", !.cyc.out = "error"]
  /\ UNCHANGED <<users, tx_cache, disk, mon, nOps, reply, recorded, prev, hist>>

\* transactions = await fetch_transactions(address, limit=5), then the loop
\* over them (lines 286-301)
CheckFetch ==
  /\ hnd.pc = "c_fetch"
  /\ mon.pc \in MonAwait
  /\ \E resp \in Feed(hnd.cyc.addr) :
       LET user == HeldUser
           st == Filter(fetch_transactions(resp), Str(hnd.user_id), hnd.cyc.addr, Now,
                        FilterStart(Get(user.wallets, hnd.cyc.addr), user.alert_count,
                                    hnd.cyc.new_alerts))
           after == [user EXCEPT !.alert_count = st.alert_count,
                                 !.wallets = Put(@, hnd.cyc.addr, st.wallet_data)]
       IN  /\ users' = IF hnd.uhold THEN Put(users, Str(hnd.user_id), after) ELSE users
           /\ tx_cache' = st.tx_cache
           /\ recorded' = st.recorded
           /\ hnd' = [hnd EXCEPT !.pc = "c_wallets_next",
                                 !.orphan = IF hnd.uhold THEN @ ELSE after,
                                 !.cyc.new_alerts = st.new_alerts,
                                 !.cyc.seen = @ \cup {<<hnd.cyc.addr, resp>>}]
           /\ hist' = [hist EXCEPT !.found = @ \cup
                         Found(hnd.cyc.id, Str(hnd.user_id), hnd.cyc.new_alerts,
                               st.new_alerts, Now)]
  /\ UNCHANGED <<disk, mon, nOps, reply, prev>>

\* if new_alerts: db.save_data() and the first of new_alerts[:3]; else the
\* reply of line 315
CheckDeliver ==
  /\ hnd.pc = "c_deliver"
  /\ IF hnd.cyc.new_alerts = <<>>
     THEN /\ hnd' = [hnd EXCEPT !.pc = "c_nonew"]
          /\ disk' = disk
     ELSE /\ hnd' = [hnd EXCEPT !.pc = "c_send", !.cyc.idx = 1]
          /\ disk' = save_data(users, tx_cache)
  /\ UNCHANGED <<users, tx_cache, mon, nOps, reply, recorded, prev, hist>>

\* await update.message.reply_text(message, ...): delivered, or it raises and
\* the exception leaves check_command
CheckSend ==
  /\ hnd.pc = "c_send"
  /\ mon.pc \in MonAwait
  /\ \E res \in SendResults :
       LET logged == [hnd EXCEPT !.cyc.log = Append(@, Event("alert", res, 0))]
       IN  /\ hnd' = IF res = "ok" THEN [logged EXCEPT !.pc = "c_sleep"]
                     ELSE [logged EXCEPT !.pc = "c_end", !.cyc.out = "error"]
           /\ hist' = [hist EXCEPT !.sent = @ \cup
                         {Attempt(hnd.cyc.id, Str(hnd.user_id),
                                  hnd.cyc.new_alerts[hnd.cyc.idx], res)}]
  /\ UNCHANGED <<users, tx_cache, disk, mon, nOps, reply, recorded, prev>>

\* await asyncio.sleep(1), then the next of new_alerts[:3], the summary of
\* line 313 when there are more than three, or the end
CheckSleep ==
  /\ hnd.pc = "c_sleep"
  /\ mon.pc \in MonAwait
  /\ LET logged == [hnd EXCEPT !.cyc.log = Append(@, Event("sleep", "ok", 0))]
     IN  hnd' = IF hnd.cyc.idx < Min(AlertCap, Len(hnd.cyc.new_alerts))
                THEN [logged EXCEPT !.pc = "c_send", !.cyc.idx = @ + 1]
                ELSE IF Len(hnd.cyc.new_alerts) > AlertCap
                THEN [logged EXCEPT !.pc = "c_summary"]
                ELSE [logged EXCEPT !.pc = "c_end", !.cyc.out = "ok"]
  /\ UNCHANGED <<users, tx_cache, disk, mon, nOps, reply, recorded, prev, hist>>

\* await update.message.reply_text(f"+{len(new_alerts)-3} more transactions...")
CheckSummary ==
  /\ hnd.pc = "c_summary"
  /\ mon.pc \in MonAwait
  /\ \E res \in SendResults :
       hnd' = [hnd EXCEPT
                 !.pc = "c_end",
                 !.cyc.out = IF res = "ok" THEN "ok" ELSE "error",
                 !.cyc.log = Append(@, Event("summary", res,
                                             Len(hnd.cyc.new_alerts) - AlertCap))]
  /\ UNCHANGED <<users, tx_cache, disk, mon, nOps, reply, recorded, prev, hist>>

\* await update.message.reply_text("No new transactions found.")
CheckNoNew ==
  /\ hnd.pc = "c_nonew"
  /\ mon.pc \in MonAwait
  /\ \E res \in SendResults :
       hnd' = [hnd EXCEPT !.pc = "c_end",
                          !.cyc.out = IF res = "ok" THEN "ok" ELSE "error",
                          !.cyc.log = Append(@, Event("info", res, 0))]
  /\ UNCHANGED <<users, tx_cache, disk, mon, nOps, reply, recorded, prev, hist>>

\* check_command returns or is left by an exception
CheckEnd ==
  /\ hnd.pc = "c_end"
  /\ prev' = NotePrev(Str(hnd.user_id), hnd.cyc)
  /\ hnd' = HndIdle
  /\ UNCHANGED <<users, tx_cache, disk, mon, nOps, reply, recorded, hist>>

\* ------------------------------------------------------- the specification

Next ==
  \/ MonitorStart
  \/ MonitorNextUser
  \/ MonitorNextWallet
  \/ MonitorFetch
  \/ MonitorDeliver
  \/ MonitorSend
  \/ MonitorSleep
  \/ MonitorCycleEnd
  \/ MonitorPassEnd
  \/ \E user_id \in UserIds, args \in AddArgs :
       AddCmd(user_id, args[1], args[2])
  \/ \E user_id \in UserIds, identifier \in Identifiers :
       RemoveCmd(user_id, identifier)
  \/ \E user_id \in UserIds : MyCmd(user_id)
  \/ \E user_id \in UserIds : CheckStart(user_id)
  \/ CheckReplied
  \/ CheckNextWallet
  \/ CheckFetch
  \/ CheckDeliver
  \/ CheckSend
  \/ CheckSleep
  \/ CheckSummary
  \/ CheckNoNew
  \/ CheckEnd

\* the bot started with no database files
Spec == Init /\ [][Next]_vars

\* the bot started on the files of a tenant with nine tracked addresses
SpecNine == InitNine /\ [][Next]_vars

\* the bot started on the files of a tenant who tracks one address
SpecOne == InitOne /\ [][Next]_vars

\* ------------------------------------------------- crashes and failed saves

\* The process starts again on the files it finds: load_data, and nothing of
\* the coroutines is left.
Restart(files) ==
  /\ disk' = files
  /\ users' = files.users
  /\ tx_cache' = files.tx_cache
  /\ mon' = MonIdle
  /\ hnd' = HndIdle
  /\ reply' = NoReply
  /\ prev' = [u \in DOMAIN prev |-> NoPrev]
  /\ UNCHANGED <<nOps, recorded, hist>>

\* the process is killed while its coroutines are suspended or idle
Crash ==
  /\ mon.pc \in MonAwait
  /\ hnd.pc \in HndAwait
  /\ mon.pc # "idle" \/ hnd.pc # "idle"
  /\ Restart(disk)

\* The files a kill inside save_data leaves: open(.., "w") has emptied the
\* file being written and json.dump has not completed it, so load_data falls
\* to its except for that file; the file written before it is complete, the
\* one after it is the old one.
TornFiles(torn) ==
  IF torn = "db"
  THEN [users |-> EmptyDict, tx_cache |-> disk.tx_cache]
  ELSE [users |-> DumpUsers(users), tx_cache |-> << >>]

\* a cycle is at its db.save_data() (line 423 or line 304)
MonitorAtSave == mon.pc = "deliver" /\ mon.cyc.new_alerts # <<>>
CheckAtSave == hnd.pc = "c_deliver" /\ hnd.cyc.new_alerts # <<>>

\* the process is killed inside the save_data of a cycle
CrashInSave ==
  /\ MonitorAtSave \/ CheckAtSave
  /\ \E torn \in {"db", "cache"} : Restart(TornFiles(torn))

\* The files a save_data that raises leaves: the open of the first file
\* failed, or the first file was written and the second failed.
FailedFiles(which) ==
  IF which = "db" THEN disk
  ELSE [users |-> DumpUsers(users), tx_cache |-> disk.tx_cache]

\* db.save_data() of line 423 raises: the except of line 444 prints the error
\* and the pass goes on with the next tenant
MonitorSaveFails ==
  /\ MonitorAtSave
  /\ \E which \in {"db", "cache"} : disk' = FailedFiles(which)
  /\ mon' = [mon EXCEPT !.pc = "cycle_end", !.cyc.out = "save_swallowed"]
  /\ UNCHANGED <<users, tx_cache, hnd, nOps, reply, recorded, prev, hist>>

\* db.save_data() of line 304 raises: the exception leaves check_command
CheckSaveFails ==
  /\ CheckAtSave
  /\ \E which \in {"db", "cache"} : disk' = FailedFiles(which)
  /\ hnd' = [hnd EXCEPT !.pc = "c_end", !.cyc.out = "save_raised"]
  /\ UNCHANGED <<users, tx_cache, mon, nOps, reply, recorded, prev, hist>>

\* self.save_data() of add_wallet (line 93) raises after the insert: the
\* exception leaves add_wallet and add_command, no reply is sent
AddSaveFails(user_id, address, name) ==
  /\ CmdReady
  /\ \E ru \in Resizes(users), rw \in Resizes(WalletsOf(users, user_id)) :
       LET r == add_wallet(users, user_id, address, name, Now + 1, ru, rw)
       IN  /\ r.ok
           /\ users' = r.users
           /\ reply' = [op |-> "add", user_id |-> user_id, arg |-> address,
                        ok |-> FALSE, msg |-> "Raised", undoes |-> FALSE]
  /\ nOps' = nOps + 1
  /\ UNCHANGED <<tx_cache, disk, mon, hnd, recorded, prev, hist>>

NextFaults ==
  \/ Next
  \/ Crash
  \/ CrashInSave
  \/ MonitorSaveFails
  \/ CheckSaveFails
  \/ \E user_id \in UserIds, args \in AddArgs :
       AddSaveFails(user_id, args[1], args[2])

\* the bot started with no database files, where the process can be killed
\* and save_data can fail
SpecFaults == Init /\ [][NextFaults]_vars

\* ------------------------------------------------------------- vocabulary

UserStrs == {Str(i) : i \in UserIds}

TrackedAddrs == Addresses \cup {FillerAddr(i) : i \in 1..(MaxWallets - 1)}

Sigs == {SIG_y, SIG_xy, <<"p">>, <<"q">>}

\* `k in db.tx_cache` for the key of a triple: the dedup membership test
Seen(u, a, id) == cache_key(u, a, id) \in DOMAIN tx_cache

\* the cycles in progress, and those that have just ended
Cycles ==
  (IF mon.pc \in {"wallets_next", "fetch", "deliver", "send", "sleep", "cycle_end"}
   THEN {[kind |-> "scheduled", uid |-> mon.uid, ended |-> mon.pc = "cycle_end",
          cyc |-> mon.cyc]}
   ELSE {})
  \cup
  (IF hnd.pc \in {"c_wallets_next", "c_fetch", "c_deliver", "c_send", "c_sleep",
                  "c_summary", "c_nonew", "c_end"}
   THEN {[kind |-> "manual", uid |-> Str(hnd.user_id), ended |-> hnd.pc = "c_end",
          cyc |-> hnd.cyc]}
   ELSE {})

EndedCycles == {c \in Cycles : c.ended}

\* the notifications of a cycle's delivery, in the order attempted
Sent(cyc) == SelectSeq(cyc.log, LAMBDA e : e.kind \in {"alert", "summary"})

Alerts(cyc) == SelectSeq(cyc.log, LAMBDA e : e.kind = "alert")

\* a tenant's tracked addresses with their names, timestamps and counters
Tracked(us, user_id) == AsMap(WalletsOf(us, user_id))

\* ------------------------------------------------------------------ claims

\* the step is a command of the handler (a pass begins in auto_monitor)
CmdStep == nOps' = nOps + 1 /\ mon'.pc = mon.pc

\* C1: every tenant tracks at most 10 addresses, and an add_wallet made while
\* the tenant has 10 is refused with QuotaExceeded and leaves the tenant's
\* addresses as they were.
QuotaInv == \A i \in LiveIdx(users) : Used(users[i][2].wallets) <= MaxWallets

AddAtQuotaRefused ==
  (/\ CmdStep
   /\ reply'.op = "add"
   /\ Used(WalletsOf(users, reply'.user_id)) = MaxWallets)
  => (/\ ~reply'.ok
      /\ reply'.msg = "QuotaExceeded"
      /\ WalletsOf(users', reply'.user_id) = WalletsOf(users, reply'.user_id))

QuotaEnforced == []QuotaInv /\ [][AddAtQuotaRefused]_vars

QuotaEnforcedWitness ==
  /\ reply.op = "add"
  /\ reply.msg = "QuotaExceeded"
  /\ Used(WalletsOf(users, reply.user_id)) = MaxWallets

\* C2: a cycle that begins after a completed cycle of the same tenant, and
\* fetches the same addresses with the same responses as that one, finds no
\* novel record and sends no notification (the counters change only where a
\* record is appended to new_alerts).
SecondCycleFindsNothing ==
  \A c \in Cycles :
    (/\ c.cyc.base.done
     /\ c.cyc.seen \subseteq c.cyc.base.seen)
    => (c.cyc.new_alerts = <<>> /\ Sent(c.cyc) = <<>>)

SecondCycleWitness ==
  \E c \in EndedCycles :
    /\ c.cyc.out = "ok"
    /\ c.cyc.base.done
    /\ c.cyc.seen = c.cyc.base.seen
    /\ \E p \in c.cyc.seen : p[2] = RespFour

\* C3: the membership test of a triple is true exactly when that triple has
\* been recorded, whatever else has been; a triple is recorded once and the
\* cache keeps its first-seen value.
DedupExact ==
  /\ \A u \in UserStrs, a \in TrackedAddrs, id \in Sigs :
       Seen(u, a, id) <=> \E r \in recorded : <<r[1], r[2], r[3]>> = <<u, a, id>>
  /\ \A r \in recorded : tx_cache[cache_key(r[1], r[2], r[3])] = r[4]
  /\ \A r1, r2 \in recorded :
       <<r1[1], r1[2], r1[3]>> = <<r2[1], r2[2], r2[3]>> => r1 = r2

\* C4: a cycle that found n novel records and whose sends all succeeded has
\* sent n notifications and no summary when n <= 3, and 3 notifications then
\* one summary of n - 3 when n > 3; no cycle sends more than 3 notifications.
CapAndSummary ==
  \A c \in EndedCycles :
    LET n == Len(c.cyc.new_alerts)
        sent == Sent(c.cyc)
    IN  /\ Len(Alerts(c.cyc)) <= AlertCap
        /\ (c.cyc.out = "ok" /\ \A i \in 1..Len(sent) : sent[i].res = "ok")
           => IF n > AlertCap
              THEN /\ Len(sent) = AlertCap + 1
                   /\ \A i \in 1..AlertCap : sent[i].kind = "alert"
                   /\ sent[AlertCap + 1] = Event("summary", "ok", n - AlertCap)
              ELSE /\ Len(sent) = n
                   /\ \A i \in 1..n : sent[i].kind = "alert"

\* C5: when a notification of a cycle fails as unreachable, it is the last
\* send of that cycle and at the cycle's end the tenant is in neither the
\* tenant map nor the saved one.
UnreachableRemoved ==
  \A c \in EndedCycles :
    \A i \in 1..Len(Sent(c.cyc)) :
      Sent(c.cyc)[i].res = "blocked"
      => /\ i = Len(Sent(c.cyc))
         /\ ~Has(users, c.uid)
         /\ ~Has(disk.users, c.uid)

NoConcurrentCycles ==
  \A c1, c2 \in Cycles :
    ~(/\ c1.kind = "scheduled" /\ ~c1.ended
      /\ c2.kind = "manual" /\ ~c2.ended /\ hnd.pc # "c_nonew"
      /\ c1.uid = c2.uid)

\* C8: at the end of a pass, every tenant that was in the tenant map when the
\* pass began and was not removed in it has had its cycle run.
PassCoversAll ==
  mon.pc = "pass_end"
  => \A u \in mon.startSet \ mon.removedSet : u \in mon.cycled

\* C9: a send that fails with an error outside the unreachable class is the
\* last send of its cycle, and the cycle does not remove the tenant.
TransientSkipsRest ==
  \A c \in Cycles :
    \A i \in 1..Len(Sent(c.cyc)) :
      Sent(c.cyc)[i].res = "transient"
      => (i = Len(Sent(c.cyc)) /\ c.cyc.out # "removed")

\* C10: a step taken for one tenant leaves every other tenant's tracked
\* addresses, counters, alert_count and dedup answers as they were, and a
\* triple of a tenant is seen only through a record made for that tenant:
\* what was notified to A is still novel for B on the same address.
View(us, u) ==
  IF Has(us, u)
  THEN [present |-> TRUE, wallets |-> AsMap(Get(us, u).wallets),
        alert_count |-> Get(us, u).alert_count]
  ELSE [present |-> FALSE, wallets |-> {}, alert_count |-> 0]

\* the tenant a step is taken for: the command's, the manual check's, or the
\* one whose scheduled cycle is running
Actor ==
  IF CmdStep THEN Str(reply'.user_id)
  ELSE IF hnd'.pc # hnd.pc THEN Str(hnd.user_id)
  ELSE mon.uid

OthersUntouched ==
  \A b \in UserStrs \ {Actor} :
    /\ View(users', b) = View(users, b)
    /\ \A a \in TrackedAddrs, id \in Sigs :
         cache_key(b, a, id) \in DOMAIN tx_cache' <=> Seen(b, a, id)

OwnRecordsOnly ==
  \A u \in UserStrs, a \in TrackedAddrs, id \in Sigs :
    Seen(u, a, id)
    => \E r \in recorded :
         r[1] = u /\ cache_key(r[1], r[2], r[3]) = cache_key(u, a, id)

TenantsIsolated == []OwnRecordsOnly /\ [][OthersUntouched]_vars

TenantsIsolatedWitness ==
  \E r1, r2 \in recorded :
    /\ r1[1] # r2[1] /\ r1[2] = r2[2] /\ r1[3] = r2[3] /\ r1[4] <= r2[4]
    /\ \A r \in {r1, r2} :
         /\ Has(users, r[1])
         /\ Get(users, r[1]).alert_count > 0
         /\ Has(Get(users, r[1]).wallets, r[2])
         /\ Get(Get(users, r[1]).wallets, r[2]).tx_count > 0

\* the step took a cycle from c to d through a fetch that failed
FailedFetch(c, d) == \E p \in d.seen \ c.seen : p[2].status # 200

\* C11: a fetch that fails yields no record for its address (the cache, the
\* counters, new_alerts and the recorded triples stay as they were) and the
\* cycle goes on with the same iterator over the tenant's addresses; and
\* every record with a signature that a cycle fetched with status 200 is in
\* the dedup cache, whatever failed before or after it.
FailedFetchIsEmpty ==
  /\ (mon.pc = "fetch" /\ FailedFetch(mon.cyc, mon'.cyc))
     => /\ mon'.pc = "wallets_next"
        /\ mon'.cyc = [mon.cyc EXCEPT !.seen = mon'.cyc.seen]
        /\ UNCHANGED <<users, tx_cache, recorded, hist>>
  /\ (hnd.pc = "c_fetch" /\ FailedFetch(hnd.cyc, hnd'.cyc))
     => /\ hnd'.pc = "c_wallets_next"
        /\ hnd'.cyc = [hnd.cyc EXCEPT !.seen = hnd'.cyc.seen]
        /\ UNCHANGED <<users, tx_cache, recorded, hist>>

FetchedAreSeen ==
  \A c \in Cycles :
    \A p \in c.cyc.seen :
      p[2].status = 200
      => \A i \in 1..Len(p[2].body) :
           p[2].body[i].signature # <<>>
           => Seen(c.uid, p[1], p[2].body[i].signature)

FetchFailureTolerated == []FetchedAreSeen /\ [][FailedFetchIsEmpty]_vars

\* a cycle whose fetch of one address failed, and which then found, counted
\* and sent the records of another address
FetchFailureWitness ==
  \E c \in EndedCycles :
    /\ c.cyc.out = "ok"
    /\ <<ADDR_A, RespFail>> \in c.cyc.seen
    /\ <<ADDR_AX, RespFour>> \in c.cyc.seen
    /\ Len(c.cyc.new_alerts) > AlertCap
    /\ \A i \in 1..Len(c.cyc.new_alerts) : c.cyc.new_alerts[i][3] = ADDR_AX
    /\ Len(Alerts(c.cyc)) = AlertCap
    /\ Get(WalletsOf(users, ParseInt(c.uid)), ADDR_AX).tx_count = Len(c.cyc.new_alerts)

\* the addresses, names and identifiers the failing calls are tried with
ProbeArgs == AddArgs \cup {<<FillerAddr(1), NAME_a>>}
ProbeIds == Identifiers \cup {NAME_a, FillerAddr(1)}

\* a command can be taken up: the handler is free and auto_monitor awaits
CmdPoint == hnd.pc = "idle" /\ mon.pc \in MonAwait

\* user["alert_count"], 0 for a tenant that does not exist
AlertCount(us, user_id) ==
  IF Has(us, Str(user_id)) THEN Get(us, Str(user_id)).alert_count ELSE 0

AddFailsCleanly ==
  \A user_id \in UserIds, args \in ProbeArgs :
    \A ru \in Resizes(users), rw \in Resizes(WalletsOf(users, user_id)) :
      LET r == add_wallet(users, user_id, args[1], args[2], Now + 1, ru, rw)
          full == Used(WalletsOf(users, user_id)) = MaxWallets
          has == Has(WalletsOf(users, user_id), args[1])
      IN  /\ r.ok <=> (~full /\ ~has)
          /\ ~r.ok => /\ r.msg = IF full THEN "QuotaExceeded" ELSE "AlreadyTracked"
                      /\ Tracked(r.users, user_id) = Tracked(users, user_id)
                      /\ AlertCount(r.users, user_id) = AlertCount(users, user_id)

RemoveFailsCleanly ==
  \A user_id \in UserIds, identifier \in ProbeIds :
    \A ru \in Resizes(users) :
      LET r == remove_wallet(users, user_id, identifier, Now + 1, ru)
          matches == \E e \in Tracked(users, user_id) :
                       \/ e[1] = identifier
                       \/ Lower(e[2].name) = Lower(identifier)
      IN  /\ r.ok <=> matches
          /\ ~r.ok => /\ r.msg = "NotFound"
                      /\ Tracked(r.users, user_id) = Tracked(users, user_id)
                      /\ AlertCount(r.users, user_id) = AlertCount(users, user_id)

RemovesExactlyOne ==
  CmdPoint =>
    \A user_id \in UserIds, identifier \in ProbeIds :
      \A ru \in Resizes(users) :
        LET r == remove_wallet(users, user_id, identifier, Now + 1, ru)
            before == Tracked(users, user_id)
            after == Tracked(r.users, user_id)
        IN  r.ok =>
              \E e \in before :
                /\ after = before \ {e}
                /\ r.removed = <<e[1]>>
                /\ IF Has(WalletsOf(users, user_id), identifier)
                   THEN e[1] = identifier
                   ELSE Lower(e[2].name) = Lower(identifier)

\* /remove A was answered for a tenant that tracked A and A_x, the latter
\* under the name "a": A is gone and A_x is still tracked
RemovesExactlyOneWitness ==
  /\ reply.op = "remove"
  /\ reply.ok
  /\ reply.arg = ADDR_A
  /\ ~Has(WalletsOf(users, reply.user_id), ADDR_A)
  /\ Has(WalletsOf(users, reply.user_id), ADDR_AX)
  /\ Lower(Get(WalletsOf(users, reply.user_id), ADDR_AX).name) = Lower(ADDR_A)

\* C14: every triple whose notification was delivered is in the dedup cache,
\* also after the process was killed and has loaded its files again.
NoReplayAfterRestart ==
  \A s \in hist.sent : s[5] = "ok" => Seen(s[1], s[2], s[3])

\* C15: no scheduled cycle ends, its save_data having failed and nobody told,
\* with a record it put into the dedup cache kept in memory and not in the file.
SaveFailureReported ==
  \A c \in EndedCycles :
    c.cyc.out = "save_swallowed"
    => \A i \in 1..Len(c.cyc.new_alerts) :
         LET key == cache_key(c.uid, c.cyc.new_alerts[i][3],
                              c.cyc.new_alerts[i][1].signature)
         IN  key \in DOMAIN tx_cache => key \in DOMAIN disk.tx_cache

\* the (tenant, address, id) of an element of hist.found or hist.sent
Triple(x) == <<x[1], x[2], x[3]>>

\* C16: a record found novel stays in the dedup cache, whatever became of its
\* delivery, and every attempt to send it was made by the cycle that found
\* it: no later cycle delivers a record whose delivery failed or was cut off.
NeverRetried ==
  \A f \in hist.found :
    /\ Seen(f[1], f[2], f[3])
    /\ \A s \in hist.sent : Triple(s) = Triple(f) => s[4] = f[4]

\* the send of a record failed in one cycle, and a later cycle of the tenant
\* that fetched the record again has ended without the record being delivered
NeverRetriedWitness ==
  \E s \in hist.sent, c \in EndedCycles :
    /\ s[5] = "transient"
    /\ c.uid = s[1]
    /\ c.cyc.id # s[4]
    /\ \E p \in c.cyc.seen :
         /\ p[1] = s[2]
         /\ \E i \in 1..Len(p[2].body) : p[2].body[i].signature = s[3]
    /\ \A s2 \in hist.sent : Triple(s2) = Triple(s) => s2[5] # "ok"

\* an entry of a cycle's log that is an attempt to send a notification
IsSend(e) == e.kind \in {"alert", "summary"}

\* C17: in no cycle does a send attempt directly follow the previous send
\* attempt: the sleep of the pacing delay lies between them, whether the
\* previous attempt succeeded or failed.
PacedSends ==
  \A c \in Cycles :
    \A i \in 1..(Len(c.cyc.log) - 1) :
      ~(IsSend(c.cyc.log[i]) /\ IsSend(c.cyc.log[i + 1]))

\* the (address, id) of the elements of a new_alerts list
AlertIds(new_alerts) ==
  [i \in 1..Len(new_alerts) |-> <<new_alerts[i][3], new_alerts[i][1].signature>>]

\* C18: whatever the interleaving of passes and manual checks, a triple is
\* appended to the new_alerts of one cycle only, and once: the records found
\* so far hold each triple once, no new_alerts list holds a record twice, and
\* all attempts to send a triple are those of one cycle.
AtMostOnce ==
  /\ \A f1, f2 \in hist.found : Triple(f1) = Triple(f2) => f1 = f2
  /\ \A c \in Cycles :
       \A i, j \in 1..Len(c.cyc.new_alerts) :
         AlertIds(c.cyc.new_alerts)[i] = AlertIds(c.cyc.new_alerts)[j] => i = j
  /\ \A s1, s2 \in hist.sent : Triple(s1) = Triple(s2) => s1[4] = s2[4]

\* a pass and a manual check are in their cycles for one tenant, both have
\* fetched the same four records of one address, and one of them found all
\* four novel and the other none
AtMostOnceWitness ==
  \E c1, c2 \in Cycles :
    /\ c1.kind # c2.kind
    /\ c1.uid = c2.uid
    /\ <<ADDR_A, RespFour>> \in c1.cyc.seen \cap c2.cyc.seen
    /\ Len(c1.cyc.new_alerts) = Len(RespFour.body)
    /\ c2.cyc.new_alerts = <<>>

\* C19: a cycle that has ended with records in its new_alerts (their keys
\* are in the dedup cache) has reached its delivery: it has saved and has
\* begun to send them.
RecordedAreEmitted ==
  \A c \in EndedCycles :
    c.cyc.new_alerts # <<>> => c.cyc.idx >= 1

\* the sum of tx_count over the entries of a wallets dict
RECURSIVE SumTx(_)
SumTx(wallets) ==
  IF wallets = <<>> THEN 0
  ELSE (IF Head(wallets) = Tomb THEN 0 ELSE Head(wallets)[2].tx_count)
       + SumTx(Tail(wallets))

\* the records found novel for a tenant (and one address) from a time on
FoundFor(u, since) == {f \in hist.found : f[1] = u /\ f[5] >= since}
FoundAt(u, a, since) == {f \in FoundFor(u, since) : f[2] = a}

\* C20: for every tenant, alert_count is the number of records found novel
\* for it since it was created (so it never decreases while the tenant
\* exists), the tx_count of every tracked address is the number of records
\* found novel for that address since it was added (each novel record adds 1
\* to both), the tx_count of the tracked addresses sum to at most alert_count,
\* and last_tx is null exactly when tx_count is 0.
CountersConsistent ==
  \A n \in LiveIdx(users) :
    LET u == users[n][1]
        user == users[n][2]
    IN  /\ user.alert_count = Cardinality(FoundFor(u, user.created))
        /\ SumTx(user.wallets) <= user.alert_count
        /\ \A i \in LiveIdx(user.wallets) :
             LET a == user.wallets[i][1]
                 w == user.wallets[i][2]
             IN  /\ (w.last_tx = None) <=> (w.tx_count = 0)
                 /\ w.tx_count = Cardinality(FoundAt(u, a, w.added))

====
